---- MODULE Spec2Model ----
(***************************************************************************)
(* cosmogony2cities: zones of a cosmogony file are filtered to the cities, *)
(* normalised to AdministrativeRegion records, packed in chunks, rendered  *)
(* into multi-row INSERT statements by a pool of workers and executed in   *)
(* one PostgreSQL transaction that first truncates the destination table.  *)
(*                                                                         *)
(* Strings whose characters the program inspects (tag values, uris, post   *)
(* codes, WKT) are sequences of one-character strings.  SQL text, which    *)
(* the program only concatenates, is a sequence of tokens.                 *)
(***************************************************************************)
EXTENDS Integers, Sequences, FiniteSets, TLC

(***************************************************************************)
(* Bounds of the model.                                                    *)
(***************************************************************************)
\* longest cosmogony file (in records) of the load specification
MaxZones == 5
\* chunk size of admins.pack(..): 500 in main.rs:121, scaled down so that
\* several full chunks and a partial one fit in MaxZones records
PackSize == 2
\* largest thread count of the rendering pool (num_cpus::get() in par_map)
MaxWorkers == 2
\* number of successive runs of the program against the same database
MaxRuns == 2
\* longest enumerated postcode tag value of the normalisation specification
MaxTagLen == 3

(***************************************************************************)
(* Option<T>: None is the empty sequence, Some(v) the one-element sequence.*)
(***************************************************************************)
None == <<>>
Some(v) == <<v>>
IsSome(o) == Len(o) = 1
Unwrap(o) == o[1]

(***************************************************************************)
(* Characters and their byte order (String's Ord compares bytes).          *)
(***************************************************************************)
AsciiOrder ==
    << " ", "(", ")", ",", "-",
       "0", "1", "2", "3", "4", "5", "6", "7", "8", "9",
       ":", ";",
       "G", "I", "L", "M", "N", "O", "P", "T", "U", "Y",
       "_",
       "a", "b", "c", "d", "e", "f", "g", "h", "i", "j", "k", "l", "m",
       "n", "o", "p", "q", "r", "s", "t", "u", "v", "w", "x", "y", "z" >>

Byte(c) == CHOOSE i \in 1..Len(AsciiOrder) : AsciiOrder[i] = c

\* a < b for two strings, as <[u8] as Ord>::cmp decides it
RECURSIVE StrLess(_, _)
StrLess(a, b) ==
    IF b = <<>> THEN FALSE
    ELSE IF a = <<>> THEN TRUE
    ELSE IF a[1] = b[1] THEN StrLess(Tail(a), Tail(b))
    ELSE Byte(a[1]) < Byte(b[1])

(***************************************************************************)
(* str::split(';'): the segments between the separators; the empty string  *)
(* gives one empty segment.                                                *)
(***************************************************************************)
RECURSIVE SplitFrom(_, _, _)
SplitFrom(s, i, cur) ==
    IF i > Len(s) THEN <<cur>>
    ELSE IF s[i] = ";" THEN <<cur>> \o SplitFrom(s, i + 1, <<>>)
    ELSE SplitFrom(s, i + 1, Append(cur, s[i]))

Split(s) == SplitFrom(s, 1, <<>>)

\* .filter(|s| !s.is_empty())
NonEmptySegments(segs) == SelectSeq(segs, LAMBDA x : x # <<>>)

(***************************************************************************)
(* Itertools::sorted(): the segments in ascending order.                   *)
(***************************************************************************)
RECURSIVE InsertSorted(_, _)
InsertSorted(x, sortedSeq) ==
    IF sortedSeq = <<>> THEN <<x>>
    ELSE IF StrLess(x, Head(sortedSeq)) THEN <<x>> \o sortedSeq
    ELSE <<Head(sortedSeq)>> \o InsertSorted(x, Tail(sortedSeq))

RECURSIVE SortedSegs(_)
SortedSegs(segs) ==
    IF segs = <<>> THEN <<>>
    ELSE InsertSorted(segs[Len(segs)], SortedSegs(SubSeq(segs, 1, Len(segs) - 1)))

\* the segments left in the order of the tag
MutSorted(segs) == segs

Sorted(segs) == SortedSegs(segs)

(***************************************************************************)
(* format_zip_codes                                                        *)
(***************************************************************************)
format_zip_codes(zip_codes) ==
    IF Len(zip_codes) = 0 THEN None
    ELSE IF Len(zip_codes) = 1 THEN Some(zip_codes[1])
    ELSE Some(zip_codes[1] \o <<"-">> \o zip_codes[Len(zip_codes)])

(***************************************************************************)
(* Zone tags: a map from the tag names to their values.                    *)
(***************************************************************************)
TagGet(tags, key) == IF key \in DOMAIN tags THEN Some(tags[key]) ELSE None

\* a.or_else(|| b)
OrElse(a, b) == IF IsSome(a) THEN a ELSE b

PostcodeTag(tags) ==
    OrElse(TagGet(tags, "addr:postcode"), TagGet(tags, "postal_code"))

\* .map_or("", |val| &val[..])
PostcodeValue(tags) ==
    LET t == PostcodeTag(tags) IN IF IsSome(t) THEN Unwrap(t) ELSE <<>>

ZipCodes(tags) == Sorted(NonEmptySegments(Split(PostcodeValue(tags))))

AdminFr == <<"a", "d", "m", "i", "n", ":", "f", "r", ":">>
AdminOsm == <<"a", "d", "m", "i", "n", ":", "o", "s", "m", ":">>

\* the reference code ignored
MutUri(insee, osm_id) == AdminOsm \o osm_id

Uri(insee, osm_id) ==
    IF IsSome(insee) THEN AdminFr \o Unwrap(insee) ELSE AdminOsm \o osm_id

\* level: Some(8)
CityLevel == 8

(***************************************************************************)
(* impl From<Zone> for AdministrativeRegion                                *)
(***************************************************************************)
FromZone(zone) ==
    LET insee == TagGet(zone.tags, "ref:INSEE")
    IN  [ id        |-> zone.id,
          name      |-> zone.name,
          uri       |-> Uri(insee, zone.osm_id),
          insee     |-> insee,
          level     |-> Some(CityLevel),
          post_code |-> format_zip_codes(ZipCodes(zone.tags)),
          coord     |-> zone.center,
          boundary  |-> zone.boundary ]

(***************************************************************************)
(* Geometry to well-known text: g.to_wkt() then items[0].to_string().      *)
(* Coordinates of the model are natural numbers, which f64's Display       *)
(* prints without a fraction.                                              *)
(***************************************************************************)
Digits == <<"0", "1", "2", "3", "4", "5", "6", "7", "8", "9">>

RECURSIVE Num(_)
Num(n) == IF n < 10 THEN <<Digits[n + 1]>> ELSE Num(n \div 10) \o <<Digits[(n % 10) + 1]>>

WktCoord(p) == Num(p[1]) \o <<" ">> \o Num(p[2])

RECURSIVE WktCoords(_)
WktCoords(ring) ==
    IF Len(ring) = 0 THEN <<>>
    ELSE IF Len(ring) = 1 THEN WktCoord(ring[1])
    ELSE WktCoord(ring[1]) \o <<",">> \o WktCoords(Tail(ring))

RECURSIVE WktRings(_)
WktRings(rings) ==
    IF Len(rings) = 0 THEN <<>>
    ELSE IF Len(rings) = 1 THEN <<"(">> \o WktCoords(rings[1]) \o <<")">>
    ELSE <<"(">> \o WktCoords(rings[1]) \o <<")", ",">> \o WktRings(Tail(rings))

WktPolygon(poly) == <<"(">> \o WktRings(<<poly.exterior>> \o poly.interiors) \o <<")">>

RECURSIVE WktPolygons(_)
WktPolygons(polys) ==
    IF Len(polys) = 0 THEN <<>>
    ELSE IF Len(polys) = 1 THEN WktPolygon(polys[1])
    ELSE WktPolygon(polys[1]) \o <<",">> \o WktPolygons(Tail(polys))

WktPoint(p) == <<"P", "O", "I", "N", "T", "(">> \o WktCoord(p) \o <<")">>

WktMultiPolygon(mp) ==
    <<"M", "U", "L", "T", "I", "P", "O", "L", "Y", "G", "O", "N", "(">>
        \o WktPolygons(mp) \o <<")">>

(***************************************************************************)
(* SQL parameters (Box<dyn ToSql>): the type, the null flag and the value. *)
(***************************************************************************)
SqlNull(ty) == [ty |-> ty, null |-> TRUE, int |-> 0, text |-> <<>>]
SqlInt(ty, n) == [ty |-> ty, null |-> FALSE, int |-> n, text |-> <<>>]
SqlText(s) == [ty |-> "TEXT", null |-> FALSE, int |-> 0, text |-> s]
SqlOptText(o) == IF IsSome(o) THEN SqlText(Unwrap(o)) ELSE SqlNull("TEXT")
SqlOptInt(ty, o) == IF IsSome(o) THEN SqlInt(ty, Unwrap(o)) ELSE SqlNull(ty)

\* number of parameters of one record (the vec! of into_sql_params, i * 8)
NbFields == 8

(***************************************************************************)
(* AdministrativeRegion::into_sql_params                                   *)
(***************************************************************************)
into_sql_params(self) ==
    LET coord == IF IsSome(self.coord) THEN Some(WktPoint(Unwrap(self.coord))) ELSE None
        boundary == IF IsSome(self.boundary)
                    THEN Some(WktMultiPolygon(Unwrap(self.boundary))) ELSE None
    IN  << SqlInt("BIGINT", self.id),
           SqlText(self.name),
           SqlText(self.uri),
           SqlOptText(self.post_code),
           SqlOptText(self.insee),
           SqlOptInt("INT", self.level),
           SqlOptText(coord),
           SqlOptText(boundary) >>

(***************************************************************************)
(* The closure of par_map in send_to_pg: the text of one INSERT statement. *)
(* A token is a piece of literal text or a placeholder $n.                 *)
(***************************************************************************)
Lit(s) == [lit |-> s, ph |-> 0]
Ph(n) == [lit |-> "$", ph |-> n]

\* format!("(${}, ${}, ${}, ${}, ${}, ${}, ST_GeomFromText(${}), ST_GeomFromText(${}))", ..)
RowTokens(base_cpt) ==
    << Lit("("), Ph(base_cpt + 1), Lit(", "), Ph(base_cpt + 2), Lit(", "),
       Ph(base_cpt + 3), Lit(", "), Ph(base_cpt + 4), Lit(", "), Ph(base_cpt + 5),
       Lit(", "), Ph(base_cpt + 6), Lit(", ST_GeomFromText("), Ph(base_cpt + 7),
       Lit("), ST_GeomFromText("), Ph(base_cpt + 8), Lit("))") >>

\* a row counted as seven placeholders
MutBaseCpt(i) == i * (NbFields - 1)

\* let base_cpt = i * 8
BaseCpt(i) == i * NbFields

\* for i in 0..nb_admins { .. }
RECURSIVE RenderRows(_, _, _)
RenderRows(i, nb_admins, query) ==
    IF i >= nb_admins THEN query
    ELSE RenderRows(i + 1, nb_admins,
                    query \o (IF i # 0 THEN <<Lit(", ")>> ELSE <<>>)
                          \o RowTokens(BaseCpt(i)))

RenderQuery(admins_chunks) ==
    RenderRows(0, Len(admins_chunks),
               <<Lit("INSERT INTO administrative_regions VALUES ")>>)
        \o <<Lit(";")>>

\* admins_chunks.iter().flat_map(|a| a.iter()...).collect()
RECURSIVE FlatParams(_)
FlatParams(admins_chunks) ==
    IF admins_chunks = <<>> THEN <<>>
    ELSE Head(admins_chunks) \o FlatParams(Tail(admins_chunks))

(***************************************************************************)
(* The store: table administrative_regions of the PostgreSQL database, as  *)
(* the statements of send_to_pg see it.  A row is its eight column values. *)
(***************************************************************************)
ColumnTypes == <<"BIGINT", "TEXT", "TEXT", "TEXT", "TEXT", "INT", "GEOGRAPHY", "GEOGRAPHY">>
NotNullColumns == {1, 2, 3}

Indices(seq) == [k \in 1..Len(seq) |-> k]

IsPh(tok) == tok.ph # 0
GeomOpeners == {", ST_GeomFromText(", "), ST_GeomFromText("}

\* ST_GeomFromText($n): the geography of the text, NULL for NULL
GeomFromText(p) == [p EXCEPT !.ty = IF p.ty = "TEXT" THEN "GEOGRAPHY" ELSE "INVALID"]

PhNumbers(query) == {query[k].ph : k \in {j \in 1..Len(query) : IsPh(query[j])}}
RowStarts(query) == SelectSeq(Indices(query), LAMBDA k : query[k] = Lit("("))
RowEnd(query, s) ==
    CHOOSE e \in s..Len(query) :
        /\ query[e] = Lit("))")
        /\ \A j \in s..(e - 1) : query[j] # Lit("))")

\* the values of the row tuple that opens at token s, its placeholders bound
BoundRow(query, params, s) ==
    LET e == RowEnd(query, s)
        phs == SelectSeq([j \in 1..(e - s - 1) |-> s + j], LAMBDA k : IsPh(query[k]))
    IN  [c \in 1..Len(phs) |->
            IF query[phs[c] - 1].lit \in GeomOpeners
            THEN GeomFromText(params[query[phs[c]].ph])
            ELSE params[query[phs[c]].ph]]

\* the rows an INSERT statement gives
InsertedRows(query, params) ==
    LET starts == RowStarts(query)
    IN  [r \in 1..Len(starts) |-> BoundRow(query, params, starts[r])]

\* the statement binds: the placeholders are those of the parameter list
BindsOk(query, params) == PhNumbers(query) = 1..Len(params)

RowOk(row) ==
    /\ Len(row) = Len(ColumnTypes)
    /\ \A c \in 1..Len(row) :
         /\ row[c].ty = ColumnTypes[c]
         /\ c \in NotNullColumns => ~row[c].null

RowId(row) == row[1].int
TableIds(rows) == {RowId(r) : r \in rows}

\* the statement is one the store accepts on the contents `rows`
StatementOk(query, params, rows) ==
    /\ BindsOk(query, params)
    /\ LET new == InsertedRows(query, params)
       IN  /\ Len(new) >= 1
           /\ \A r \in 1..Len(new) : RowOk(new[r])
           /\ \A r1, r2 \in 1..Len(new) : r1 # r2 => RowId(new[r1]) # RowId(new[r2])
           /\ \A r \in 1..Len(new) : RowId(new[r]) \notin TableIds(rows)

SeqRange(seq) == {seq[k] : k \in 1..Len(seq)}

(***************************************************************************)
(* The input: the records read_zones_from_file yields, Ok(zone) or Err.    *)
(***************************************************************************)
Ok(z) == [ok |-> TRUE, val |-> <<z>>]
Err == [ok |-> FALSE, val |-> <<>>]

NoTags == [t \in {} |-> <<>>]

UnitSquare ==
    << [exterior |-> << <<0, 0>>, <<1, 0>>, <<1, 1>>, <<0, 1>>, <<0, 0>> >>,
        interiors |-> <<>>] >>

\* zones after the three of test::tests, without their id and type
SampleZones ==
    << [name |-> <<"t", "o", "t", "o">>, osm_id |-> <<"b", "o", "b">>, tags |-> NoTags,
        center |-> None, boundary |-> None],
       [name |-> <<"t", "o", "t", "o">>, osm_id |-> <<>>,
        tags |-> [t \in {"ref:INSEE", "addr:postcode"} |->
                    IF t = "ref:INSEE" THEN <<"7", "5", "1", "1", "1">>
                    ELSE <<"7", "5", "0", "1", "1", ";", "7", "5", "1", "1", "1">>],
        center |-> Some(<<12, 14>>), boundary |-> Some(UnitSquare)],
       [name |-> <<"i", "n", "s", "e", "e">>, osm_id |-> <<"i", "n", "s", "e", "e">>,
        tags |-> [t \in {"ref:INSEE", "addr:postcode"} |->
                    IF t = "ref:INSEE" THEN <<"0", "1", "2", "4", "9">>
                    ELSE <<"0", "1", "7", "0", "0">>],
        center |-> None, boundary |-> None] >>

ZoneKinds == {"bad", "city", "other"}

\* the zone of kind `kind` at place k of the file; its index is its place
ZoneAt(kind, k) ==
    LET s == SampleZones[((k - 1) % Len(SampleZones)) + 1]
    IN  [ id |-> k - 1, name |-> s.name, osm_id |-> s.osm_id, tags |-> s.tags,
          center |-> s.center, boundary |-> s.boundary,
          zone_type |-> IF kind = "city" THEN Some("City")
                        ELSE IF k % 2 = 0 THEN Some("Suburb") ELSE None ]

RecordAt(kind, k) == IF kind = "bad" THEN Err ELSE Ok(ZoneAt(kind, k))

Inputs ==
    UNION { { [k \in 1..n |-> RecordAt(kinds[k], k)] : kinds \in [1..n -> ZoneKinds] }
            : n \in 0..MaxZones }

\* rows left in the table by an earlier load
StaleRow(id) ==
    << SqlInt("BIGINT", id), SqlText(<<"o", "l", "d">>), SqlText(AdminOsm), SqlNull("TEXT"),
       SqlNull("TEXT"), SqlInt("INT", CityLevel), SqlNull("GEOGRAPHY"), SqlNull("GEOGRAPHY") >>

InitialTables == { {}, {StaleRow(0), StaleRow(MaxZones + 2)} }

(***************************************************************************)
(* State                                                                   *)
(***************************************************************************)
VARIABLES
    input,      \* the records of the cosmogony file
    nbThreads,  \* threads of the rendering pool
    table,      \* committed contents of administrative_regions
    work,       \* contents as the open transaction sees them
    txn,        \* "none", "open", "committed" or "rolledback"
    pc,         \* place of the run in index_cities / send_to_pg
    pos,        \* next record the zone iterator reads
    warnings,   \* records logged by log::warn! as impossible to read
    futures,    \* chunks handed to the pool: chunk, status, rendered query
    stmts,      \* statements sent on the connection in this run
    result,     \* what index_cities returned: "none", "Ok" or "Err"
    run,        \* number of the current run
    before,     \* committed contents when the current run started
    loads,      \* committed contents after each successful run
    zoneIn,     \* normalisation: the zone to convert
    regionOut,  \* normalisation: Some(AdministrativeRegion) once converted
    paramsOut   \* normalisation: Some(parameters) once encoded

loadVars == <<input, nbThreads, table, work, txn, pc, pos, warnings, futures, stmts,
              result, run, before, loads>>
normVars == <<zoneIn, regionOut, paramsOut>>
vars == <<input, nbThreads, table, work, txn, pc, pos, warnings, futures, stmts,
          result, run, before, loads, zoneIn, regionOut, paramsOut>>

Stmt(op, ok, chunk) == [op |-> op, ok |-> ok, chunk |-> chunk]

(***************************************************************************)
(* The iterator chain of index_cities and import_zones, as pack(..) pulls  *)
(* it: filter_map drops and logs the records that did not decode, filter   *)
(* keeps the cities, the two maps convert them; pack stops at PackSize     *)
(* records or at the end of the file.                                      *)
(***************************************************************************)
\* untyped zones let through
MutIsCity(z) == z.zone_type # Some("Suburb")

\* .filter(|z| z.zone_type == Some(ZoneType::City))
IsCity(z) == z.zone_type = Some("City")

\* chunks one record too long
MutChunkFull(acc) == Len(acc) = PackSize + 1

ChunkFull(acc) == Len(acc) = PackSize

\* reading stops at the record that does not decode
MutAfterDecodeError(records, p) == Len(records) + 1

\* filter_map(|r| r.map_err(|e| log::warn!(..)).ok()): on to the next record
AfterDecodeError(records, p) == p + 1

RECURSIVE PackFrom(_, _, _, _)
PackFrom(records, p, acc, warns) ==
    IF ChunkFull(acc) \/ p > Len(records)
    THEN [chunk |-> acc, pos |-> p, warns |-> warns]
    ELSE IF ~records[p].ok
    THEN PackFrom(records, AfterDecodeError(records, p), acc, warns + 1)
    ELSE IF IsCity(records[p].val[1])
    THEN PackFrom(records, p + 1,
                  Append(acc, into_sql_params(FromZone(records[p].val[1]))), warns)
    ELSE PackFrom(records, p + 1, acc, warns)

NextChunk(records, p) == PackFrom(records, p, <<>>, 0)

(***************************************************************************)
(* par_map: Map::spawn takes the next chunk, if there is one, and queues   *)
(* its rendering on the pool.  st is [pos, warnings, futures].             *)
(***************************************************************************)
SpawnOne(records, st) ==
    LET nc == NextChunk(records, st.pos)
    IN  [ pos      |-> nc.pos,
          warnings |-> st.warnings + nc.warns,
          futures  |-> IF nc.chunk = <<>> THEN st.futures
                       ELSE Append(st.futures,
                                   [chunk |-> nc.chunk, status |-> "queued", query |-> <<>>]) ]

RECURSIVE SpawnTimes(_, _, _)
SpawnTimes(records, st, n) ==
    IF n = 0 THEN st ELSE SpawnTimes(records, SpawnOne(records, st), n - 1)

\* nothing queued when the pool is created
MutLookahead(n) == 0

\* for _ in 0..nb_threads * 2 { res.spawn() }
Lookahead(n) == n + n

WithStatus(st) == {k \in 1..Len(futures) : futures[k].status = st}

\* the future at the front of the queue
Front == CHOOSE k \in 1..Len(futures) :
            /\ futures[k].status # "taken"
            /\ \A j \in 1..(k - 1) : futures[j].status = "taken"

QueueEmpty == WithStatus("taken") = 1..Len(futures)

(***************************************************************************)
(* Init                                                                    *)
(***************************************************************************)
InitRun ==
    /\ work = {}
    /\ txn = "none"
    /\ pc = "start"
    /\ pos = 1
    /\ warnings = 0
    /\ futures = <<>>
    /\ stmts = <<>>
    /\ result = "none"

InitNormIdle ==
    /\ zoneIn = ZoneAt("city", 1)
    /\ regionOut = None
    /\ paramsOut = None

Init ==
    /\ input \in Inputs
    /\ nbThreads \in 1..MaxWorkers
    /\ table \in InitialTables
    /\ before = table
    /\ loads = <<>>
    /\ run = 1
    /\ InitRun
    /\ InitNormIdle

(***************************************************************************)
(* index_cities up to import_zones: the connection is made (expect panics  *)
(* otherwise) and the file is opened, which may fail; the records are read *)
(* later, as the chunks are pulled.                                        *)
(***************************************************************************)
IndexCities ==
    /\ pc = "start"
    /\ \E opened \in BOOLEAN :
         IF opened
         THEN /\ pc' = "begin"
              /\ UNCHANGED result
         ELSE /\ pc' = "failed"
              /\ result' = "Err"
    /\ UNCHANGED <<input, nbThreads, table, work, txn, pos, warnings, futures, stmts,
                   run, before, loads>>
    /\ UNCHANGED normVars

(***************************************************************************)
(* send_to_pg: let transaction = cnx.transaction()?                        *)
(***************************************************************************)
BeginTransaction ==
    /\ pc = "begin"
    /\ \E ok \in BOOLEAN :
         /\ stmts' = Append(stmts, Stmt("BEGIN", ok, 0))
         /\ IF ok
            THEN /\ txn' = "open"
                 /\ work' = table
                 /\ pc' = "truncate"
                 /\ UNCHANGED result
            ELSE /\ pc' = "failed"
                 /\ result' = "Err"
                 /\ UNCHANGED <<txn, work>>
    /\ UNCHANGED <<input, nbThreads, table, pos, warnings, futures, run, before, loads>>
    /\ UNCHANGED normVars

(***************************************************************************)
(* Transaction::drop without commit: the transaction is rolled back.       *)
(***************************************************************************)
\* the error swallowed: the loop goes on with the next batch
MutContinueAfterError(sent) ==
    /\ stmts' = sent
    /\ UNCHANGED <<table, work, txn, pc, result>>

\* the transaction committed when it is dropped
MutDropTransaction(sent) ==
    /\ txn' = "committed"
    /\ table' = work
    /\ work' = {}
    /\ stmts' = Append(sent, Stmt("COMMIT", TRUE, 0))
    /\ pc' = "failed"
    /\ result' = "Err"

DropTransaction(sent) ==
    /\ txn' = "rolledback"
    /\ table' = table
    /\ work' = {}
    /\ stmts' = Append(sent, Stmt("ROLLBACK", TRUE, 0))
    /\ pc' = "failed"
    /\ result' = "Err"

(***************************************************************************)
(* transaction.execute("TRUNCATE TABLE administrative_regions;", &[])?     *)
(***************************************************************************)
\* the table left as it was
MutTruncated(rows) == rows

Truncated(rows) == {}

Truncate ==
    /\ pc = "truncate"
    /\ \E ok \in BOOLEAN :
         IF ok
         THEN /\ work' = Truncated(work)
              /\ stmts' = Append(stmts, Stmt("TRUNCATE", TRUE, 0))
              /\ pc' = "par_map"
              /\ UNCHANGED <<table, txn, result>>
         ELSE DropTransaction(Append(stmts, Stmt("TRUNCATE", FALSE, 0)))
    /\ UNCHANGED <<input, nbThreads, pos, warnings, futures, run, before, loads>>
    /\ UNCHANGED normVars

(***************************************************************************)
(* admins.pack(500).par_map(..): the pool is created and the first chunks  *)
(* are pulled and queued.                                                  *)
(***************************************************************************)
ParMapNew ==
    /\ pc = "par_map"
    /\ LET st == SpawnTimes(input, [pos |-> pos, warnings |-> warnings, futures |-> futures],
                            Lookahead(nbThreads))
       IN  /\ pos' = st.pos
           /\ warnings' = st.warnings
           /\ futures' = st.futures
    /\ pc' = "loop"
    /\ UNCHANGED <<input, nbThreads, table, work, txn, stmts, result, run, before, loads>>
    /\ UNCHANGED normVars

(***************************************************************************)
(* The pool: its threads take the queued chunks oldest first, so a chunk   *)
(* is being rendered when fewer than nbThreads unrendered chunks are ahead *)
(* of it; one of the threads ends the rendering of its chunk.              *)
(***************************************************************************)
OnThread(k) ==
    /\ futures[k].status = "queued"
    /\ Cardinality({j \in WithStatus("queued") : j < k}) < nbThreads

Render(k) ==
    /\ pc = "loop"
    /\ OnThread(k)
    /\ futures' = [futures EXCEPT ![k].status = "done",
                                  ![k].query = RenderQuery(futures[k].chunk)]
    /\ UNCHANGED <<input, nbThreads, table, work, txn, pc, pos, warnings, stmts, result,
                   run, before, loads>>
    /\ UNCHANGED normVars

(***************************************************************************)
(* One turn of the for loop: Map::next waits for the front future and      *)
(* spawns one more; the body executes the statement with the parameters of *)
(* the chunk.                                                              *)
(***************************************************************************)
ExecuteBatch ==
    /\ pc = "loop"
    /\ ~QueueEmpty
    /\ futures[Front].status = "done"
    /\ LET k == Front
           query == futures[k].query
           params == FlatParams(futures[k].chunk)
           st == SpawnOne(input, [pos |-> pos, warnings |-> warnings,
                                  futures |-> [futures EXCEPT ![k].status = "taken"]])
       IN  /\ pos' = st.pos
           /\ warnings' = st.warnings
           /\ futures' = st.futures
           /\ \E accepted \in BOOLEAN :
                IF accepted /\ StatementOk(query, params, work)
                THEN /\ work' = work \cup SeqRange(InsertedRows(query, params))
                     /\ stmts' = Append(stmts, Stmt("INSERT", TRUE, k))
                     /\ UNCHANGED <<table, txn, pc, result>>
                ELSE DropTransaction(Append(stmts, Stmt("INSERT", FALSE, k)))
    /\ UNCHANGED <<input, nbThreads, run, before, loads>>
    /\ UNCHANGED normVars

\* Map::next returns None: the loop ends
LoopEnd ==
    /\ pc = "loop"
    /\ QueueEmpty
    /\ pc' = "commit"
    /\ UNCHANGED <<input, nbThreads, table, work, txn, pos, warnings, futures, stmts,
                   result, run, before, loads>>
    /\ UNCHANGED normVars

(***************************************************************************)
(* transaction.commit()?; Ok(())                                           *)
(***************************************************************************)
Commit ==
    /\ pc = "commit"
    /\ \E ok \in BOOLEAN :
         /\ stmts' = Append(stmts, Stmt("COMMIT", ok, 0))
         /\ work' = {}
         /\ IF ok
            THEN /\ table' = work
                 /\ txn' = "committed"
                 /\ pc' = "done"
                 /\ result' = "Ok"
                 /\ loads' = Append(loads, work)
            ELSE /\ table' = table
                 /\ txn' = "rolledback"
                 /\ pc' = "failed"
                 /\ result' = "Err"
                 /\ UNCHANGED loads
    /\ UNCHANGED <<input, nbThreads, pos, warnings, futures, run, before>>
    /\ UNCHANGED normVars

(***************************************************************************)
(* The program is run again on the same file and database.                 *)
(***************************************************************************)
NextRun ==
    /\ pc \in {"done", "failed"}
    /\ run < MaxRuns
    /\ run' = run + 1
    /\ before' = table
    /\ work' = {}
    /\ txn' = "none"
    /\ pc' = "start"
    /\ pos' = 1
    /\ warnings' = 0
    /\ futures' = <<>>
    /\ stmts' = <<>>
    /\ result' = "none"
    /\ UNCHANGED <<input, nbThreads, table, loads>>
    /\ UNCHANGED normVars

Next ==
    \/ IndexCities
    \/ BeginTransaction
    \/ Truncate
    \/ ParMapNew
    \/ \E k \in 1..Len(futures) : Render(k)
    \/ ExecuteBatch
    \/ LoopEnd
    \/ Commit
    \/ NextRun

Spec == Init /\ [][Next]_vars

(***************************************************************************)
(* Normalisation alone: one zone is converted by From<Zone> and encoded by *)
(* into_sql_params.  The zone ranges over the tag values of the bounds.    *)
(***************************************************************************)
TagAlphabet == {"0", "9", ";"}

RECURSIVE StringsUpTo(_)
StringsUpTo(n) ==
    IF n = 0 THEN {<<>>}
    ELSE LET shorter == StringsUpTo(n - 1)
         IN  shorter \cup {Append(t, c) : t \in shorter, c \in TagAlphabet}

PostcodeValues ==
    StringsUpTo(MaxTagLen)
        \cup { <<"7", "5", "0", "1", "1", ";", "7", "5", "1", "1", "1">>,
               <<"0", "1", "7", "0", "0">>,
               <<"7", "5", "0", "1", "1">> }

InseeValues == { <<>>, <<"7", "5", "1", "1", "1">>, <<"0", "1", "2", "4", "9">> }
AltPostcodeValues == { <<>>, <<"0", "1", "7", "0", "0">>, <<"9", ";", "0">> }
OsmIds == { <<"b", "o", "b">>, <<>>, <<"f", "r", ":", "1">> }

Options(S) == {None} \cup {Some(v) : v \in S}

\* the tag map holding the tags that are present
TagsOf(insee, postcode, alt) ==
    LET present == (IF IsSome(insee) THEN {"ref:INSEE"} ELSE {})
                     \cup (IF IsSome(postcode) THEN {"addr:postcode"} ELSE {})
                     \cup (IF IsSome(alt) THEN {"postal_code"} ELSE {})
    IN  [t \in present |->
            IF t = "ref:INSEE" THEN Unwrap(insee)
            ELSE IF t = "addr:postcode" THEN Unwrap(postcode)
            ELSE Unwrap(alt)]

NormZones ==
    { [ id |-> 0, name |-> <<"t", "o", "t", "o">>, osm_id |-> o,
        tags |-> TagsOf(i, pcode, alt), center |-> g[1], boundary |-> g[2],
        zone_type |-> Some("City") ] :
        o \in OsmIds, i \in Options(InseeValues), pcode \in Options(PostcodeValues),
        alt \in Options(AltPostcodeValues),
        g \in { <<None, None>>, <<Some(<<12, 14>>), Some(UnitSquare)>> } }

InitNorm ==
    /\ zoneIn \in NormZones
    /\ regionOut = None
    /\ paramsOut = None
    /\ input = <<>>
    /\ nbThreads = 1
    /\ table = {}
    /\ before = {}
    /\ loads = <<>>
    /\ run = 1
    /\ work = {}
    /\ txn = "none"
    /\ pc = "normalise"
    /\ pos = 1
    /\ warnings = 0
    /\ futures = <<>>
    /\ stmts = <<>>
    /\ result = "none"

\* .map(|z| z.into())
Normalise ==
    /\ regionOut = None
    /\ regionOut' = Some(FromZone(zoneIn))
    /\ UNCHANGED <<zoneIn, paramsOut>>
    /\ UNCHANGED loadVars

\* .map(|a: AdministrativeRegion| a.into_sql_params())
Encode ==
    /\ IsSome(regionOut)
    /\ paramsOut = None
    /\ paramsOut' = Some(into_sql_params(Unwrap(regionOut)))
    /\ UNCHANGED <<zoneIn, regionOut>>
    /\ UNCHANGED loadVars

NextNorm == Normalise \/ Encode

SpecNorm == InitNorm /\ [][NextNorm]_vars

(***************************************************************************)
(* Properties                                                              *)
(***************************************************************************)
CeilDiv(b, sz) == (b + sz - 1) \div sz
HasPrefix(str, pre) == Len(str) >= Len(pre) /\ SubSeq(str, 1, Len(pre)) = pre

\* a <= b in the lexicographic order of the bytes, stated on the positions
LexLeq(a, b) ==
    \E n \in 0..Len(a) :
        /\ n <= Len(b)
        /\ \A j \in 1..n : a[j] = b[j]
        /\ \/ n = Len(a)
           \/ n < Len(b) /\ Byte(a[n + 1]) < Byte(b[n + 1])

\* the maximal runs of characters other than ';' of a tag value, as <<first, last>>
Runs(v) ==
    { r \in (1..Len(v)) \X (1..Len(v)) :
        /\ r[1] <= r[2]
        /\ \A j \in r[1]..r[2] : v[j] # ";"
        /\ r[1] = 1 \/ v[r[1] - 1] = ";"
        /\ r[2] = Len(v) \/ v[r[2] + 1] = ";" }

RunText(v, r) == SubSeq(v, r[1], r[2])

\* the tag value the post code is derived from
ClaimedPostcodeSource(tags) ==
    IF "addr:postcode" \in DOMAIN tags THEN tags["addr:postcode"]
    ELSE IF "postal_code" \in DOMAIN tags THEN tags["postal_code"]
    ELSE <<>>

ClaimedPostCode(v, post_code) ==
    LET runs == Runs(v)
    IN  /\ runs = {} => post_code = None
        /\ Cardinality(runs) = 1 => \E r \in runs : post_code = Some(RunText(v, r))
        /\ Cardinality(runs) > 1 =>
             \E lo, hi \in runs :
                /\ \A r \in runs : /\ LexLeq(RunText(v, lo), RunText(v, r))
                                   /\ LexLeq(RunText(v, r), RunText(v, hi))
                /\ post_code = Some(RunText(v, lo) \o <<"-">> \o RunText(v, hi))

\* C6: post_code of the normalised record comes from addr:postcode, or from
\* postal_code only when addr:postcode is absent; it is absent for no non-empty
\* segment, the segment for one, and "<least>-<greatest>" in byte order for
\* several, duplicates counting as several; "75011;75111" gives "75011-75111".
C6_PostCode ==
    IsSome(regionOut) =>
        LET v == ClaimedPostcodeSource(zoneIn.tags)
            post_code == Unwrap(regionOut).post_code
        IN  /\ ClaimedPostCode(v, post_code)
            /\ v = <<"7", "5", "0", "1", "1", ";", "7", "5", "1", "1", "1">>
                 => post_code = Some(<<"7", "5", "0", "1", "1", "-", "7", "5", "1", "1", "1">>)
            /\ v = <<"0", "1", "7", "0", "0">> => post_code = Some(<<"0", "1", "7", "0", "0">>)
            /\ v = <<>> => post_code = None

\* a converted zone whose segments are out of order in the tag: "9;0" gives "0-9"
C6_Witness ==
    /\ IsSome(regionOut)
    /\ "addr:postcode" \in DOMAIN zoneIn.tags
    /\ zoneIn.tags["addr:postcode"] = <<"9", ";", "0">>
    /\ Unwrap(regionOut).post_code = Some(<<"0", "-", "9">>)

\* C7: uri is "admin:fr:<ref:INSEE>" when the tag is present and
\* "admin:osm:<osm_id>" otherwise, exactly one of the two forms; the fr form is
\* produced iff insee is present, and insee is then the code, verbatim.
C7_Uri ==
    IsSome(regionOut) =>
        LET r == Unwrap(regionOut)
            fr == HasPrefix(r.uri, AdminFr)
            osm == HasPrefix(r.uri, AdminOsm)
        IN  /\ fr # osm
            /\ "ref:INSEE" \in DOMAIN zoneIn.tags
                 => r.uri = AdminFr \o zoneIn.tags["ref:INSEE"]
            /\ "ref:INSEE" \notin DOMAIN zoneIn.tags => r.uri = AdminOsm \o zoneIn.osm_id
            /\ fr <=> IsSome(r.insee)
            /\ IsSome(r.insee) => /\ Unwrap(r.insee) = zoneIn.tags["ref:INSEE"]
                                  /\ r.uri = AdminFr \o Unwrap(r.insee)

\* a converted zone whose code starts with a zero
C7_Witness ==
    /\ IsSome(regionOut)
    /\ Unwrap(regionOut).insee = Some(<<"0", "1", "2", "4", "9">>)
    /\ Unwrap(regionOut).uri = AdminFr \o <<"0", "1", "2", "4", "9">>

(***************************************************************************)
(* The load: what the claims say of a run, stated on the file's records.   *)
(***************************************************************************)
\* the city zones of the file, in file order
CityPlaces == {k \in 1..Len(input) : input[k].ok /\ input[k].val[1].zone_type = Some("City")}
CitySeq == SelectSeq(input, LAMBDA r : r.ok /\ r.val[1].zone_type = Some("City"))
NbCities == Len(CitySeq)
NbChunks == CeilDiv(NbCities, PackSize)
BadPlaces == {k \in 1..Len(input) : ~input[k].ok}

\* the row the table holds for a parameter list
StoredRow(params) ==
    [c \in 1..Len(params) |->
        IF ColumnTypes[c] = "GEOGRAPHY" THEN GeomFromText(params[c]) ELSE params[c]]

RowOfZone(z) == StoredRow(into_sql_params(FromZone(z)))
RunRows == {RowOfZone(input[k].val[1]) : k \in CityPlaces}

Failed(op) == \E i \in 1..Len(stmts) : stmts[i].op = op /\ ~stmts[i].ok
Sent(op) == {i \in 1..Len(stmts) : stmts[i].op = op}
\* the loop of send_to_pg has consumed every rendered batch
Drained == pc \in {"commit", "done"} \/ Sent("COMMIT") # {}

\* C1: a run whose TRUNCATE or any INSERT failed is never committed, it is
\* rolled back, and the table then holds what it held before the run; before
\* a commit the visible table is the one of before the run, after it the
\* whole load: no state shows only some batches.
C1_Atomicity ==
    /\ pc # "done" => table = before
    /\ pc = "done" => table = RunRows
    /\ (Failed("TRUNCATE") \/ Failed("INSERT")) =>
          /\ Sent("COMMIT") = {}
          /\ txn = "rolledback"
          /\ stmts[Len(stmts)].op = "ROLLBACK"
          /\ result = "Err"
          /\ table = before
          /\ run = 1 => table \cap RunRows = {}

\* the second of several batches failed, on a table that held rows
C1_Witness ==
    /\ pc = "failed"
    /\ before # {}
    /\ NbChunks >= 3
    /\ \E i \in 1..Len(stmts) : stmts[i] = Stmt("INSERT", TRUE, 1)
    /\ \E i \in 1..Len(stmts) : stmts[i] = Stmt("INSERT", FALSE, 2)

\* C2: B city records give ceil(B / PackSize) statements, none for B = 0,
\* every chunk but the last of PackSize records; the rows of the statements
\* are the B records once each, in file order, for every number of threads
\* and every order in which the renderings end.
C2_Batching ==
    /\ Len(futures) <= NbChunks
    /\ \A k \in 1..Len(futures) :
         /\ Len(futures[k].chunk) >= 1
         /\ k < NbChunks => Len(futures[k].chunk) = PackSize
         /\ k = NbChunks => Len(futures[k].chunk) = NbCities - (NbChunks - 1) * PackSize
         /\ \A i \in 1..Len(futures[k].chunk) :
              futures[k].chunk[i]
                 = into_sql_params(FromZone(CitySeq[(k - 1) * PackSize + i].val[1]))
         /\ futures[k].status = "done" =>
              /\ Len(RowStarts(futures[k].query)) = Len(futures[k].chunk)
              /\ InsertedRows(futures[k].query, FlatParams(futures[k].chunk))
                   = [i \in 1..Len(futures[k].chunk) |-> StoredRow(futures[k].chunk[i])]
    /\ Drained =>
         /\ Len(futures) = NbChunks
         /\ \A k \in 1..Len(futures) : futures[k].status = "taken"
         /\ Cardinality(Sent("INSERT")) = NbChunks

\* three statements, the last of a partial chunk, rendered by two threads
C2_Witness ==
    /\ pc = "done"
    /\ nbThreads = 2
    /\ Len(futures) = 3
    /\ Len(futures[3].chunk) < PackSize
    /\ NbCities = 2 * PackSize + 1

\* C3: a successful run leaves exactly the rows of the file's cities and no
\* row of the earlier contents; two successful runs on the same file leave
\* the same contents.
C3_Idempotence ==
    /\ \A i \in 1..Len(loads) : loads[i] = RunRows
    /\ \A i, j \in 1..Len(loads) : loads[i] = loads[j]
    /\ pc = "done" =>
         /\ table = loads[Len(loads)]
         /\ \A row \in before : row \in table => row \in RunRows

\* two successful runs in succession on a file with cities
C3_Witness ==
    /\ Len(loads) = 2
    /\ run = 2
    /\ pc = "done"
    /\ Cardinality(table) >= 2

\* C4: the batches are executed one at a time in the order of the chunks;
\* after a failed statement no other statement is executed and the run
\* returns the error; COMMIT is sent at most once and only after every batch
\* of the run was executed with success.
C4_FailFast ==
    /\ LET ins == SelectSeq(stmts, LAMBDA x : x.op = "INSERT")
       IN  \A i \in 1..Len(ins) : ins[i].chunk = i
    /\ \A i \in 1..Len(stmts) :
         ~stmts[i].ok =>
            /\ \A j \in (i + 1)..Len(stmts) : stmts[j].op = "ROLLBACK"
            /\ result = "Err"
            /\ pc = "failed"
    /\ Cardinality(Sent("COMMIT")) <= 1
    /\ \A c \in Sent("COMMIT") :
         /\ c = Len(stmts)
         /\ \A i \in 1..(c - 1) : stmts[i].ok
         /\ {stmts[i].chunk : i \in Sent("INSERT")} = 1..NbChunks
         /\ Len(futures) = NbChunks
    /\ result = "Ok" => Sent("COMMIT") # {} /\ \A i \in 1..Len(stmts) : stmts[i].ok

\* the first batch went through, the second failed, a third was waiting
C4_Witness ==
    /\ pc = "failed"
    /\ Len(futures) = 3
    /\ futures[3].status # "taken"
    /\ \E i \in 1..Len(stmts) : stmts[i] = Stmt("INSERT", TRUE, 1)
    /\ \E i \in 1..Len(stmts) : stmts[i] = Stmt("INSERT", FALSE, 2)

\* the statements of a run in which none fails, for n chunks
Protocol(n) ==
    <<Stmt("BEGIN", TRUE, 0), Stmt("TRUNCATE", TRUE, 0)>>
        \o [k \in 1..n |-> Stmt("INSERT", TRUE, k)]
        \o <<Stmt("COMMIT", TRUE, 0)>>

\* C5: a run of send_to_pg sends one TRUNCATE, inside the transaction and
\* before any INSERT, then one INSERT per non-empty chunk, then COMMIT, also
\* for no chunk at all; a run that a failure stops has sent a prefix of that.
C5_Protocol ==
    /\ Cardinality(Sent("TRUNCATE")) <= 1
    /\ Cardinality(Sent("BEGIN")) <= 1
    /\ \A i \in Sent("TRUNCATE") : i = 2 /\ stmts[1] = Stmt("BEGIN", TRUE, 0)
    /\ \A i \in Sent("INSERT") : i > 2 /\ stmts[2] = Stmt("TRUNCATE", TRUE, 0)
    /\ Cardinality(Sent("INSERT")) <= NbChunks
    /\ result = "Ok" => stmts = Protocol(NbChunks)
    /\ Drained => /\ Cardinality(Sent("TRUNCATE")) = 1
                  /\ Cardinality(Sent("INSERT")) = NbChunks
    /\ \A i \in 1..Len(stmts) :
         (stmts[i].ok /\ stmts[i].op # "ROLLBACK") => stmts[i] = Protocol(NbChunks)[i]

\* a committed run of three chunks: BEGIN, TRUNCATE, three INSERTs, COMMIT
C5_Witness ==
    /\ result = "Ok"
    /\ NbChunks = 3
    /\ Len(stmts) = 6

\* C8: the rows of the transaction and of a committed load are rows of city
\* zones, one per city zone of the file once loaded, with the zone's index as
\* id; no other zone gives a chunk entry or a row.
C8_Filter ==
    /\ \A k \in 1..Len(futures) : \A i \in 1..Len(futures[k].chunk) :
         \E c \in CityPlaces : futures[k].chunk[i][1] = SqlInt("BIGINT", c - 1)
    /\ pc \in {"par_map", "loop", "commit"} =>
         \A row \in work : \E c \in CityPlaces : /\ RowId(row) = c - 1
                                                 /\ row = RowOfZone(input[c].val[1])
    /\ pc = "done" =>
         /\ TableIds(table) = {c - 1 : c \in CityPlaces}
         /\ Cardinality(table) = Cardinality(CityPlaces)
         /\ \A row \in table : row = RowOfZone(input[RowId(row) + 1].val[1])

\* a load of a file that holds a city, a zone of another type and an untyped one
C8_Witness ==
    /\ pc = "done"
    /\ table # {}
    /\ \E k \in 1..Len(input) : input[k].ok /\ input[k].val[1].zone_type = Some("Suburb")
    /\ \E k \in 1..Len(input) : input[k].ok /\ input[k].val[1].zone_type = None

\* C9: a record that does not decode is logged once and dropped; reading
\* goes on to the end of the file; no run fails but by the file not opening
\* or a statement failing; a committed load holds every decoded city zone,
\* those before and those after the bad records.
C9_DecodeSkipped ==
    /\ warnings = Cardinality({k \in BadPlaces : k < pos})
    /\ Drained => pos = Len(input) + 1 /\ warnings = Cardinality(BadPlaces)
    /\ pc = "failed" => stmts = <<>> \/ \E i \in 1..Len(stmts) : ~stmts[i].ok
    /\ txn = "rolledback" => \E i \in 1..Len(stmts) : ~stmts[i].ok
    /\ pc = "done" =>
         \A k \in CityPlaces : \E row \in table : RowId(row) = k - 1

\* a committed load of a file with a bad record between two cities
C9_Witness ==
    /\ pc = "done"
    /\ warnings >= 1
    /\ \E b \in BadPlaces :
         /\ \E k \in CityPlaces : k < b
         /\ \E k \in CityPlaces : k > b
    /\ Cardinality(table) = Cardinality(CityPlaces)

PhSeq(query) == SelectSeq(query, IsPh)

====
